---- MODULE Spec2Model ----
(***************************************************************************)
(* Model of bchutil's sign.go: calcBip143SignatureHash (the BIP143 digest  *)
(* with the fork identifier folded into the sighash type) and              *)
(* RawTxInSignature (sign the digest, append the one-byte trailer).        *)
(*                                                                         *)
(* Byte strings are sequences over 0..255.  Go's 0-based slice element     *)
(* s[i] is s[i+1] here.  Integers that the code converts to a fixed width  *)
(* (uint32(tx.Version), uint64(amt), byte(hashType|...)) are encoded by    *)
(* two's-complement little-endian byte extraction, so the width is kept.   *)
(***************************************************************************)
EXTENDS Integers, Sequences, FiniteSets, TLC

\* ------------------------------------------------------------------ bounds
MaxIn  == 2      \* largest number of inputs of a modelled transaction
MaxOut == 2      \* largest number of outputs of a modelled transaction
MaxIdx == 2      \* largest input index a caller passes (smallest is -1)

\* --------------------------------------------------------------- constants
SigHashForkID       == 64     \* 0x40
sigHashMask         == 31     \* 0x1f
SigHashAll          == 1
SigHashNone         == 2
SigHashSingle       == 3
SigHashAnyOneCanPay == 128    \* 0x80
HashSize            == 32

\* ------------------------------------------------------------ bit helpers
RECURSIVE BitAnd(_, _)
BitAnd(x, y) ==
  IF x = 0 \/ y = 0 THEN 0
  ELSE (x % 2) * (y % 2) + 2 * BitAnd(x \div 2, y \div 2)

RECURSIVE BitOr(_, _)
BitOr(x, y) ==
  IF x = 0 THEN y
  ELSE IF y = 0 THEN x
  ELSE (IF x % 2 = 1 \/ y % 2 = 1 THEN 1 ELSE 0) + 2 * BitOr(x \div 2, y \div 2)

\* binary.LittleEndian.PutUintNN(b[:], uintNN(n)): the w low bytes of n in
\* two's complement, least significant first (\div is floor division, so a
\* negative n is sign-extended exactly as the Go conversion does).
RECURSIVE LittleEndian(_, _)
LittleEndian(n, w) ==
  IF w = 0 THEN << >> ELSE << n % 256 >> \o LittleEndian(n \div 256, w - 1)

\* byte(x): the conversion of an unsigned integer to one byte
ToByte(x) == x % 256

\* ------------------------------------------------- external collaborators
\* chainhash.DoubleHashB: 32 bytes determined by the whole input.  SHA-256d
\* is replaced by a 16-bit order-sensitive checksum written into the first two bytes
\* and spread over the other thirty; the result is never the all-zero hash.
At(b, k, hi) == IF k <= hi THEN b[k] + 1 ELSE 0

RECURSIVE Mix(_, _, _)
Mix(b, lo, hi) ==
  IF hi - lo >= 8
  THEN LET mid == (lo + hi) \div 2
       IN  (Mix(b, lo, mid) * 31 + Mix(b, mid + 1, hi) + hi - lo) % 65521
  ELSE (At(b, lo, hi) + 3 * At(b, lo + 1, hi) + 5 * At(b, lo + 2, hi)
          + 7 * At(b, lo + 3, hi) + 11 * At(b, lo + 4, hi) + 13 * At(b, lo + 5, hi)
          + 17 * At(b, lo + 6, hi) + 19 * At(b, lo + 7, hi) + 7) % 65521

DoubleHashB(b) ==
  LET acc == Mix(b, 1, Len(b))
  IN  [i \in 1..HashSize |-> IF i = 1 THEN acc % 256
                             ELSE IF i = 2 THEN acc \div 256
                             ELSE (acc + i) % 256]

\* wire.WriteVarInt
WriteVarInt(val) ==
  IF val < 253 THEN << val >>
  ELSE IF val <= 65535 THEN << 253 >> \o LittleEndian(val, 2)
  ELSE << 254 >> \o LittleEndian(val, 4)   \* lengths >= 2^32 are not modelled

\* wire.WriteVarBytes
WriteVarBytes(bytes) == WriteVarInt(Len(bytes)) \o bytes

\* wire.WriteTxOut
WriteTxOut(to) == LittleEndian(to.Value, 8) \o WriteVarBytes(to.PkScript)

\* the concatenation of the first n byte strings of ss
RECURSIVE Concat(_, _)
Concat(ss, n) == IF n = 0 THEN << >> ELSE Concat(ss, n - 1) \o ss[n]

OutPointBytes(in) ==
  in.PreviousOutPoint.Hash \o LittleEndian(in.PreviousOutPoint.Index, 4)
SequenceBytes(in) == LittleEndian(in.Sequence, 4)

\* txscript.NewTxSigHashes
NewTxSigHashes(t) ==
  [ HashPrevOuts |-> DoubleHashB(Concat([i \in 1..Len(t.TxIn) |-> OutPointBytes(t.TxIn[i])], Len(t.TxIn))),
    HashSequence |-> DoubleHashB(Concat([i \in 1..Len(t.TxIn) |-> SequenceBytes(t.TxIn[i])], Len(t.TxIn))),
    HashOutputs  |-> DoubleHashB(Concat([i \in 1..Len(t.TxOut) |-> WriteTxOut(t.TxOut[i])], Len(t.TxOut))) ]

\* DER integer: a leading zero byte when the top bit is set
DerInt(b) == IF b[1] >= 128 THEN << 0 >> \o b ELSE b

\* key.Sign(hash) followed by signature.Serialize(): a DER sequence of two
\* integers derived from the key and the digest that was signed.
SignSerialize(key, hash) ==
  LET r == DerInt(SubSeq(DoubleHashB(<< key >> \o hash), 1, 4))
      s == DerInt(SubSeq(DoubleHashB(hash \o << key >>), 1, 4))
  IN  << 48, 4 + Len(r) + Len(s), 2, Len(r) >> \o r \o << 2, Len(s) >> \o s

\* ------------------------------------------------------------ input sets
Bytes(n, v) == [i \in 1..n |-> (v + i) % 256]

Input(i) ==
  [ PreviousOutPoint |-> [ Hash |-> Bytes(HashSize, 40 * i), Index |-> 300 * i - 300 ],
    Sequence         |-> 2147483647 - i ]

Output(i) == [ Value |-> 70000 * i, PkScript |-> Bytes(i + 1, 100 * i) ]

Versions   == {1, -1}
LockTimes  == {500000}
Amounts    == {100000000, -1}
ScriptLens == {0, 2, 253}
SubScripts == {Bytes(n, 118) : n \in ScriptLens}
PrivKeys   == {5}

Transactions ==
  { [ Version |-> v, TxIn |-> [i \in 1..n |-> Input(i)],
      TxOut |-> [i \in 1..m |-> Output(i)], LockTime |-> l ] :
      v \in Versions, n \in 0..MaxIn, m \in 0..MaxOut, l \in LockTimes }

BaseTypes == {0, SigHashAll, SigHashNone, SigHashSingle, 6, 7, 18}
FlagSets  == {0, 32, 64, 96, 128, 160, 192, 224, 448}   \* bits 0x20, 0x40, 0x80; 0x1c0
HashTypes == {b + f : b \in BaseTypes, f \in FlagSets}

Nil      == << >>
NoError  == ""

\* ------------------------------------------------------------------ state
VARIABLES
  tx, idx, subScript, hashType, amt,   \* the arguments of the call
  pc,          \* "ready" before the call, "done" after it returned or panicked
  op,          \* which function was called: "none", "calc" or "raw"
  sigHash,     \* the preimage buffer of calcBip143SignatureHash (Nil if never built)
  hash,        \* the []byte calcBip143SignatureHash returned (Nil for Go's nil)
  printed,     \* the diagnostic of line 49 was printed
  panicked,    \* the call ended in an index-out-of-range runtime panic
  accesses,    \* element accesses performed: [arr |-> "TxIn" | "TxOut", i |-> index]
  signCalled,  \* key.Sign was invoked
  signArg,     \* the digest handed to key.Sign
  signature,   \* the []byte RawTxInSignature returned (Nil for Go's nil)
  err          \* the error RawTxInSignature returned (NoError for Go's nil)

args == << tx, idx, subScript, hashType, amt >>
vars == << tx, idx, subScript, hashType, amt, pc, op, sigHash, hash, printed,
           panicked, accesses, signCalled, signArg, signature, err >>

zeroHash == [i \in 1..HashSize |-> 0]

\* ------------------------------------------------ calcBip143SignatureHash
\* line 48: the sanity check on the input index
IdxRejected(t, i) == i > Len(t.TxIn) - 1

\* lines 88-91, 104: tx.TxIn[idx] is indexed; Go panics outside 0..len-1
TxInInRange(t, i) == 0 <= i /\ i < Len(t.TxIn)

\* lines 59-61
bVersion(t) == LittleEndian(t.Version, 4)

\* faulty variant of PrevOutsSlot: the flag is compared for equality, not tested as a bit
PrevOutsSlot_Equality(ht, sigHashes) ==
  IF ht # SigHashAnyOneCanPay
  THEN sigHashes.HashPrevOuts
  ELSE zeroHash

\* lines 70-74
PrevOutsSlot(ht, sigHashes) ==
  IF BitAnd(ht, SigHashAnyOneCanPay) = 0
  THEN sigHashes.HashPrevOuts
  ELSE zeroHash

\* faulty variant of SequenceSlot: the base type is tested without sigHashMask
SequenceSlot_Unmasked(ht, sigHashes) ==
  IF /\ BitAnd(ht, SigHashAnyOneCanPay) = 0
     /\ BitAnd(ht, SigHashSingle) # SigHashSingle
     /\ BitAnd(ht, SigHashNone) # SigHashNone
  THEN sigHashes.HashSequence
  ELSE zeroHash

\* lines 79-85
SequenceSlot(ht, sigHashes) ==
  IF /\ BitAnd(ht, SigHashAnyOneCanPay) = 0
     /\ BitAnd(ht, sigHashMask) # SigHashSingle
     /\ BitAnd(ht, sigHashMask) # SigHashNone
  THEN sigHashes.HashSequence
  ELSE zeroHash

\* lines 88-91
OutPointField(t, i) ==
  t.TxIn[i + 1].PreviousOutPoint.Hash
    \o LittleEndian(t.TxIn[i + 1].PreviousOutPoint.Index, 4)

\* line 96
ScriptCodeField(script) == WriteVarBytes(script)

\* lines 100-102
bAmount(a) == LittleEndian(a, 8)

\* lines 103-105
bSequence(t, i) == LittleEndian(t.TxIn[i + 1].Sequence, 4)

\* lines 111-112: the first branch condition, tested without sigHashMask
UsesHashOutputs(ht) ==
  /\ BitAnd(ht, SigHashSingle) # SigHashSingle
  /\ BitAnd(ht, SigHashNone) # SigHashNone

\* line 114: the second branch condition
UsesSingleOutput(ht, t, i) ==
  /\ ~UsesHashOutputs(ht)
  /\ BitAnd(ht, sigHashMask) = SigHashSingle
  /\ i < Len(t.TxOut)

\* faulty variant of OutputsSlot: the last branch falls back to the cached hash
OutputsSlot_FallThrough(ht, sigHashes, t, i) ==
  IF UsesHashOutputs(ht) THEN sigHashes.HashOutputs
  ELSE IF UsesSingleOutput(ht, t, i) THEN DoubleHashB(WriteTxOut(t.TxOut[i + 1]))
  ELSE sigHashes.HashOutputs

\* lines 111-120
OutputsSlot(ht, sigHashes, t, i) ==
  IF UsesHashOutputs(ht) THEN sigHashes.HashOutputs
  ELSE IF UsesSingleOutput(ht, t, i) THEN DoubleHashB(WriteTxOut(t.TxOut[i + 1]))
  ELSE zeroHash

\* lines 124-126
bLockTime(t) == LittleEndian(t.LockTime, 4)

\* faulty variant of bHashType: the fork identifier is not OR'd into the word
bHashType_NoForkID(ht) == LittleEndian(ht, 4)

\* lines 127-129
bHashType(ht) == LittleEndian(BitOr(ht, SigHashForkID), 4)

\* faulty variant of SigHashPreimage: the sequence number is written before the amount
SigHashPreimage_Swapped(script, sigHashes, ht, t, i, a) ==
  bVersion(t)
    \o PrevOutsSlot(ht, sigHashes)
    \o SequenceSlot(ht, sigHashes)
    \o OutPointField(t, i)
    \o ScriptCodeField(script)
    \o bSequence(t, i)
    \o bAmount(a)
    \o OutputsSlot(ht, sigHashes, t, i)
    \o bLockTime(t)
    \o bHashType(ht)

\* lines 56-129: everything written to the sigHash buffer, in order
SigHashPreimage(script, sigHashes, ht, t, i, a) ==
  bVersion(t)
    \o PrevOutsSlot(ht, sigHashes)
    \o SequenceSlot(ht, sigHashes)
    \o OutPointField(t, i)
    \o ScriptCodeField(script)
    \o bAmount(a)
    \o bSequence(t, i)
    \o OutputsSlot(ht, sigHashes, t, i)
    \o bLockTime(t)
    \o bHashType(ht)

\* the element accesses of one run that passed the check of line 48
ElementAccesses(ht, t, i) ==
  {[arr |-> "TxIn", i |-> i]}
    \cup (IF TxInInRange(t, i) /\ UsesSingleOutput(ht, t, i)
          THEN {[arr |-> "TxOut", i |-> i]} ELSE {})

\* The outcome of calcBip143SignatureHash(subScript, sigHashes, hashType, tx, idx, amt)
calcBip143SignatureHash(script, sigHashes, ht, t, i, a) ==
  IF IdxRejected(t, i)
  THEN [ buf |-> Nil, ret |-> Nil, printed |-> TRUE, panicked |-> FALSE, accesses |-> {} ]
  ELSE IF ~TxInInRange(t, i)
  THEN [ buf |-> bVersion(t) \o PrevOutsSlot(ht, sigHashes) \o SequenceSlot(ht, sigHashes),
         ret |-> Nil, printed |-> FALSE, panicked |-> TRUE,
         accesses |-> ElementAccesses(ht, t, i) ]
  ELSE LET buf == SigHashPreimage(script, sigHashes, ht, t, i, a)
       IN  [ buf |-> buf, ret |-> DoubleHashB(buf), printed |-> FALSE,
             panicked |-> FALSE, accesses |-> ElementAccesses(ht, t, i) ]

\* faulty variant of TrailerByte: the base type is masked before the fork identifier is added
TrailerByte_Masked(ht) == ToByte(BitOr(BitAnd(ht, sigHashMask + SigHashAnyOneCanPay), SigHashForkID))

\* line 29: the trailer byte
TrailerByte(ht) == ToByte(BitOr(ht, SigHashForkID))

\* ---------------------------------------------------------------- actions
Init ==
  /\ tx \in Transactions
  /\ idx \in -1..MaxIdx
  /\ subScript \in SubScripts
  /\ hashType \in HashTypes
  /\ amt \in Amounts
  /\ pc = "ready"
  /\ op = "none"
  /\ sigHash = Nil
  /\ hash = Nil
  /\ printed = FALSE
  /\ panicked = FALSE
  /\ accesses = {}
  /\ signCalled = FALSE
  /\ signArg = Nil
  /\ signature = Nil
  /\ err = NoError

\* a direct call of calcBip143SignatureHash with a cache built for tx; r is the
\* outcome of the one call
CallCalcBip143SignatureHash ==
  /\ pc = "ready"
  /\ \E r \in {calcBip143SignatureHash(subScript, NewTxSigHashes(tx), hashType, tx, idx, amt)} :
         /\ sigHash' = r.buf
         /\ hash' = r.ret
         /\ printed' = r.printed
         /\ panicked' = r.panicked
         /\ accesses' = r.accesses
  /\ pc' = "done"
  /\ op' = "calc"
  /\ UNCHANGED << args, signCalled, signArg, signature, err >>

\* lines 20-30; signOK is whether key.Sign returned a nil error, key the private key
RawTxInSignature ==
  /\ pc = "ready"
  /\ \E r \in {calcBip143SignatureHash(subScript, NewTxSigHashes(tx), hashType, tx, idx, amt)},
        signOK \in BOOLEAN, key \in PrivKeys :
           /\ sigHash' = r.buf
           /\ hash' = r.ret
           /\ printed' = r.printed
           /\ panicked' = r.panicked
           /\ accesses' = r.accesses
           /\ IF r.panicked
              THEN /\ signCalled' = FALSE
                   /\ signArg' = Nil
                   /\ signature' = Nil
                   /\ err' = NoError
              ELSE /\ signCalled' = TRUE
                   /\ signArg' = r.ret
                   /\ IF signOK
                      THEN /\ signature' = SignSerialize(key, r.ret) \o << TrailerByte(hashType) >>
                           /\ err' = NoError
                      ELSE /\ signature' = Nil
                           /\ err' = "cannot sign tx input"
  /\ pc' = "done"
  /\ op' = "raw"
  /\ UNCHANGED args

Next == CallCalcBip143SignatureHash \/ RawTxInSignature

Spec == Init /\ [][Next]_vars

TypeOK ==
  /\ pc \in {"ready", "done"}
  /\ op \in {"none", "calc", "raw"}
  /\ Len(hash) \in {0, HashSize}
  /\ panicked \in BOOLEAN

\* ------------------------------------------------- vocabulary of the claims
Returned    == pc = "done"
ValidIndex  == 0 <= idx /\ idx < Len(tx.TxIn)
Digested    == Returned /\ ValidIndex
BaseType    == hashType % 32
AnyOneCanPaySet == (hashType \div 128) % 2 = 1
ForkIdSet(b)    == (b \div 64) % 2 = 1
Cache       == NewTxSigHashes(tx)
VarIntLen(n) == IF n < 253 THEN 1 ELSE IF n <= 65535 THEN 3 ELSE 5
ScriptEnd   == 104 + VarIntLen(Len(subScript)) + Len(subScript)
Field(a, b) == SubSeq(sigHash, a, b)
PrevOutsField == Field(5, 36)
SequenceField == Field(37, 68)
OutputsField  == Field(ScriptEnd + 13, ScriptEnd + 44)

\* C1: a call with inputIndex >= len(tx.Inputs) ends in an explicit error
\* result and never in a nil/empty digest handed back without an error.
C1_ExplicitError ==
  (Returned /\ idx >= Len(tx.TxIn)) => (err # NoError /\ ~(hash = Nil /\ err = NoError))

\* C2: RawTxInSignature has no partial success: an inputIndex outside the
\* input range comes back as an error with no signature bytes and key.Sign
\* is never run on the missing digest; exactly one of error and signature
\* bytes is returned.
C2_NoPartialSuccess ==
  (Returned /\ op = "raw" /\ ~panicked) =>
     /\ idx >= Len(tx.TxIn) => (err # NoError /\ signature = Nil /\ ~signCalled)
     /\ (err # NoError) # (signature # Nil)

\* C3: the fork-identifier bit 0x40 is set in the low byte of the 4-byte
\* little-endian sighash-type word that ends the preimage and in the trailer
\* byte that ends the signature, whatever sighashType the caller passed.
C3_ForkIdBothPlaces ==
  /\ Digested =>
       /\ ForkIdSet(sigHash[Len(sigHash) - 3])
       /\ Field(Len(sigHash) - 2, Len(sigHash)) = << (hashType \div 256) % 256, 0, 0 >>
  /\ (Returned /\ signature # Nil) => ForkIdSet(signature[Len(signature)])

C3_Witness ==
  /\ Digested /\ op = "raw" /\ signature # Nil
  /\ ~ForkIdSet(hashType)
  /\ ForkIdSet(sigHash[Len(sigHash) - 3])
  /\ ForkIdSet(signature[Len(signature)])

\* C4: when the base type (sighashType & 0x1f) is neither SINGLE nor NONE,
\* the outputs-digest slot of the preimage is the cached HashOutputs.
C4_OtherBaseUsesHashOutputs ==
  (Digested /\ BaseType \notin {SigHashSingle, SigHashNone}) =>
     OutputsField = Cache.HashOutputs

\* C5: for a valid inputIndex the outputs-digest slot is 32 zero bytes, with a
\* digest returned and not the cached HashOutputs, when the base type is NONE
\* or the base type is SINGLE and inputIndex >= len(tx.Outputs).
C5_ZeroOutputsSlot ==
  (Digested /\ (BaseType = SigHashNone
                  \/ (BaseType = SigHashSingle /\ idx >= Len(tx.TxOut)))) =>
     /\ OutputsField = [i \in 1..32 |-> 0]
     /\ OutputsField # Cache.HashOutputs
     /\ Len(hash) = 32 /\ ~panicked /\ ~printed

C5_Witness ==
  /\ Digested /\ BaseType = SigHashSingle /\ idx >= Len(tx.TxOut)
  /\ Len(tx.TxOut) > 0
  /\ OutputsField = [i \in 1..32 |-> 0]

\* C6: the 32 preimage bytes after the 4-byte version are all zero when the
\* ANYONECANPAY bit is set and the cache's HashPrevOuts when it is not,
\* whatever the base type and the fork-identifier bit.
C6_PrevOutsSlot ==
  Digested =>
     PrevOutsField = (IF AnyOneCanPaySet THEN [i \in 1..32 |-> 0] ELSE Cache.HashPrevOuts)

C6_Witness ==
  /\ Digested /\ AnyOneCanPaySet /\ BaseType # 0
  /\ PrevOutsField = [i \in 1..32 |-> 0]
  /\ PrevOutsField # Cache.HashPrevOuts

\* C7: the second 32-byte slot after the version is the cached HashSequence
\* exactly when ANYONECANPAY is not set and the base type is neither SINGLE
\* nor NONE, and 32 zero bytes in every other case.
C7_SequenceSlot ==
  Digested =>
     SequenceField =
        (IF ~AnyOneCanPaySet /\ BaseType \notin {SigHashSingle, SigHashNone}
         THEN Cache.HashSequence ELSE [i \in 1..32 |-> 0])

C7_Witness ==
  /\ Digested /\ ~AnyOneCanPaySet /\ BaseType = 6
  /\ SequenceField = Cache.HashSequence

\* C8 as stated: the returned signature is the serialized signature followed
\* by one trailer byte equal to (sighashType & 0x1f) | (0x80 if set) | 0x40.
C8_TrailerAsStated ==
  (Returned /\ op = "raw" /\ signature # Nil) =>
     /\ signature = SignSerialize(5, signArg)
                      \o << BaseType + (IF AnyOneCanPaySet THEN 128 ELSE 0) + 64 >>

\* C8 amended: the returned signature is the serialized signature followed by
\* one trailer byte equal to the low eight bits of sighashType | 0x40: the
\* base type, bit 0x20 if set, ANYONECANPAY if set, and the fork identifier;
\* for sighashType = ALL the trailer byte is 0x41.
C8_TrailerLowByte ==
  (Returned /\ op = "raw" /\ signature # Nil) =>
     /\ Len(signature) = Len(SignSerialize(5, signArg)) + 1
     /\ SubSeq(signature, 1, Len(signature) - 1) = SignSerialize(5, signArg)
     /\ signature[Len(signature)] =
          BaseType + (IF (hashType \div 32) % 2 = 1 THEN 32 ELSE 0) + 64
            + (IF AnyOneCanPaySet THEN 128 ELSE 0)
     /\ hashType = SigHashAll => signature[Len(signature)] = 65

C8_Witness ==
  /\ Returned /\ op = "raw" /\ signature # Nil /\ ValidIndex
  /\ hashType = SigHashAll
  /\ signature[Len(signature)] = 65

\* C9: for a valid inputIndex the digest is the double-hash of a preimage
\* made of, in this order: version (4), previous-outputs slot (32),
\* sequence-numbers slot (32), outpoint of Inputs[inputIndex] (32 + 4), the
\* varint-prefixed script code, the caller's amount (8), the sequence number
\* of Inputs[inputIndex] (4), outputs slot (32), lock time (4), sighash-type
\* word (4): 156 + len(prefix) + len(scriptCode) bytes, the outpoint and the
\* sequence number being those of the input at inputIndex and of no other.
C9_PreimageLayout ==
  Digested =>
    LET n == Len(subScript)
        v == VarIntLen(n)
        e == ScriptEnd
        in == tx.TxIn[idx + 1]
    IN  /\ hash = DoubleHashB(sigHash)
        /\ Len(sigHash) = 156 + v + n
        /\ Field(1, 4) = LittleEndian(tx.Version, 4)
        /\ PrevOutsField \in {[i \in 1..32 |-> 0], Cache.HashPrevOuts}
        /\ SequenceField \in {[i \in 1..32 |-> 0], Cache.HashSequence}
        /\ Field(69, 100) = in.PreviousOutPoint.Hash
        /\ Field(101, 104) = LittleEndian(in.PreviousOutPoint.Index, 4)
        /\ Field(105, 104 + v) = WriteVarInt(n)
        /\ Field(105 + v, e) = subScript
        /\ Field(e + 1, e + 8) = LittleEndian(amt, 8)
        /\ Field(e + 9, e + 12) = LittleEndian(in.Sequence, 4)
        /\ OutputsField \in {[i \in 1..32 |-> 0], Cache.HashOutputs}
              \cup {DoubleHashB(WriteTxOut(tx.TxOut[j])) : j \in 1..Len(tx.TxOut)}
        /\ Field(e + 45, e + 48) = LittleEndian(tx.LockTime, 4)
        /\ Field(e + 49, e + 52) =
              LittleEndian(hashType + (IF ForkIdSet(hashType) THEN 0 ELSE 64), 4)
        /\ \A j \in 1..Len(tx.TxIn) :
              j # idx + 1 =>
                 /\ Field(69, 104) # OutPointBytes(tx.TxIn[j])
                 /\ Field(e + 9, e + 12) # SequenceBytes(tx.TxIn[j])

C9_Witness ==
  /\ Digested /\ idx = 1 /\ Len(subScript) = 253 /\ amt = -1
  /\ Len(sigHash) = 156 + 3 + 253
  /\ hash = DoubleHashB(sigHash)

\* C10: no call reaches an out-of-range element access: tx.TxIn[inputIndex]
\* is read only when 0 <= inputIndex < len(tx.TxIn) and tx.TxOut[inputIndex]
\* only when 0 <= inputIndex < len(tx.TxOut), negative indices included.
C10_NoOutOfRangeAccess ==
  /\ ~panicked
  /\ \A a \in accesses :
       /\ a.arr = "TxIn" => (0 <= a.i /\ a.i < Len(tx.TxIn))
       /\ a.arr = "TxOut" => (0 <= a.i /\ a.i < Len(tx.TxOut))
====
